---- MODULE Spec2Model ----
(***************************************************************************)
(* Model of oxen::log::CategoryLogger and for_each_cat_logger               *)
(* (include/oxen/log/catlogger.hpp, src/catlogger.cpp).                      *)
(*                                                                           *)
(* Threads call the access operator of shared CategoryLogger handles and     *)
(* for_each_cat_logger; every statement that touches shared memory is one    *)
(* step, so that all interleavings of the lock-free fast path with the       *)
(* locked slow path and with enumerations are explored.                      *)
(***************************************************************************)
EXTENDS Integers, Sequences, FiniteSets, TLC

\* ---------------------------------------------------------------- bounds
NumThreads == 2
NumHandles == 3
MaxObjects == 3

\* ------------------------------------------------------------- constants
\* An empty logger_ptr (catlogger.hpp:39, default-constructed shared_ptr).
Null == 0
\* The value of loggers_mutex_ when no thread owns it (catlogger.cpp:11).
Unlocked == 0

Threads == 1..NumThreads
Handles == 1..NumHandles
ObjIds == 1..MaxObjects

\* Category names in use; handle h is constructed with HandleName(h), so that
\* handles 1 and 3 share a name and handles 1 and 2 have distinct names.
Names == {"net", "disk"}
HandleName(h) == IF h % 2 = 1 THEN "net" ELSE "disk"

\* Level values used by the callers; "unset" is the level of a logger whose
\* set_level has not been called yet by this code.
Levels == {"info", "warn"}
InitialDefaultLevel == "info"
master_sink == "master_sink"

\* The callbacks callers pass to for_each_cat_logger.  "null" is an empty
\* std::function, "noop" a callback that changes nothing, "set" a visitor
\* calling logger.set_level(level), resp. an and_then calling
\* detail::set_default_catlogger_level(level).
NullFn == [kind |-> "null", level |-> "info"]
NoopFn == [kind |-> "noop", level |-> "info"]
SetFn(l) == [kind |-> "set", level |-> l]
\* A callback that calls back into a lock-acquiring operation.
ReenterFn == [kind |-> "reenter", level |-> "info"]

Visitors == {NullFn, NoopFn} \cup {SetFn(l) : l \in Levels}
AndThens == {NullFn} \cup {SetFn(l) : l \in Levels}

VARIABLES
    loggers_,                \* registry: category name -> logger_ptr
    loggers_mutex_,          \* owner of the registry mutex, or Unlocked
    loggers_default_level_,  \* level given to newly created loggers
    objects,                 \* every spdlog::logger made so far, by id
    have_logger,             \* per handle: std::atomic<bool> have_logger
    logger,                  \* per handle: logger_ptr logger
    built,                   \* the handles whose constructor has run
    th,                      \* per thread: position and locals of its call
    lastSet,                 \* history: the level last given for new loggers, by the
                             \* initializer of line 13 or by the latest setter call
    relevelled,              \* history: some visitor has called set_level
    reconf                   \* history: level of the latest completed full
                             \* reconfiguration, "none" once a level changed since

vars == <<loggers_, loggers_mutex_, loggers_default_level_, objects,
          have_logger, logger, built, th, lastSet, relevelled, reconf>>

\* A thread that is not inside any call.
IdleFrame ==
    [pc |-> "idle", h |-> 0, f |-> NullFn, and_then |-> NullFn,
     snap |-> {}, visited |-> {}, calls |-> 0, thens |-> 0, ret |-> Null,
     made |-> FALSE, under_lock |-> FALSE, got |-> "none"]

\* The statics of catlogger.cpp lines 7-13 and no thread in any call; B is
\* the set of handles that have been constructed already.
InitWith(B) ==
    /\ loggers_ = <<>>
    /\ loggers_mutex_ = Unlocked
    /\ loggers_default_level_ = InitialDefaultLevel
    /\ objects = <<>>
    /\ have_logger = [h \in Handles |-> FALSE]
    /\ logger = [h \in Handles |-> Null]
    /\ built = B
    /\ th = [t \in Threads |-> IdleFrame]
    /\ lastSet = InitialDefaultLevel
    /\ relevelled = FALSE
    /\ reconf = "none"

\* Every handle has been constructed (as the static handles of a program
\* are before its threads start).
Init == InitWith(Handles)

\* ------------------------------------------------------------- helpers
\* Replace fields of thread t's frame.
Goto(t, pc) == [th EXCEPT ![t].pc = pc]

\* The names that currently are keys of the registry.
Registered == DOMAIN loggers_

\* ---------------------------------------- CategoryLogger access operator
\* Mutation of line 63: the test of have_logger is left out.
NeverFastPath(h) == FALSE

\* operator const logger_ptr&(), line 63: the lock-free test of have_logger
\* decides between the cached reference and find_or_make_logger().
TakesFastPath(h) == have_logger[h]

\* lines 62-65.  On the fast path (line 64) the cached reference is returned
\* at once; otherwise the thread goes on to find_or_make_logger (line 65).
OperatorLoggerPtr(t, h) ==
    /\ th[t].pc = "idle"
    /\ h \in built
    /\ th' = IF TakesFastPath(h)
               THEN [th EXCEPT ![t].pc = "fast_done", ![t].ret = logger[h]]
               ELSE [th EXCEPT ![t].pc = "fm_lock", ![t].h = h]
    /\ UNCHANGED <<loggers_, loggers_mutex_, loggers_default_level_, objects,
                   have_logger, logger, lastSet, relevelled, reconf>>
    /\ UNCHANGED built

\* ------------------------------------ CategoryLogger::find_or_make_logger
\* Mutation of line 16: find_or_make_logger does not wait for the mutex.
FmLockNeverWaits == TRUE

\* line 16: the constructor of the lock_guard blocks until loggers_mutex_
\* has no owner.
FmLockReady == loggers_mutex_ = Unlocked

\* line 16: std::lock_guard lock{loggers_mutex_}
FmLock(t) ==
    /\ th[t].pc = "fm_lock"
    /\ FmLockReady
    /\ loggers_mutex_' = t
    /\ th' = Goto(t, "fm_check")
    /\ UNCHANGED <<loggers_, loggers_default_level_, objects, have_logger,
                   logger, lastSet, relevelled, reconf>>
    /\ UNCHANGED built

\* line 17: if (have_logger), tested again now that the mutex is held.
AlreadyResolved(h) == have_logger[h]

\* Mutation of line 17: "if (have_logger = false)", an assignment where the
\* test was meant, so that the flag is cleared and the body always runs.
FmCheckAssigns(t) ==
    /\ th[t].pc = "fm_check"
    /\ have_logger' = [have_logger EXCEPT ![th[t].h] = FALSE]
    /\ th' = Goto(t, "fm_index")
    /\ UNCHANGED <<loggers_, loggers_mutex_, loggers_default_level_, objects,
                   logger, lastSet, relevelled, reconf>>
    /\ UNCHANGED built

\* lines 17-18: if (have_logger) return;  The guard's destructor unlocks and
\* operator const logger_ptr& returns the reference (catlogger.hpp line 66).
FmCheck(t) ==
    /\ th[t].pc = "fm_check"
    /\ IF AlreadyResolved(th[t].h)
         THEN /\ loggers_mutex_' = Unlocked
              /\ th' = [th EXCEPT ![t] = IdleFrame]
         ELSE /\ th' = Goto(t, "fm_index")
              /\ UNCHANGED loggers_mutex_
    /\ UNCHANGED <<loggers_, loggers_default_level_, objects, have_logger,
                   logger, lastSet, relevelled, reconf>>
    /\ UNCHANGED built

\* Mutation of line 20: every handle indexes the registry with one fixed key.
SlotKeyShared(h) == "net"

\* The key find_or_make_logger indexes the registry with: the handle's name.
SlotKey(h) == HandleName(h)

\* Mutation of line 20: the entry is assigned an empty logger_ptr whether
\* or not the key is there (insert_or_assign in place of operator[]).
FmIndexOverwrites(t) ==
    /\ th[t].pc = "fm_index"
    /\ LET k == SlotKey(th[t].h) IN
         loggers_' = [n \in Registered \cup {k} |->
                        IF n = k THEN Null ELSE loggers_[n]]
    /\ th' = Goto(t, "fm_make")
    /\ UNCHANGED <<loggers_mutex_, loggers_default_level_, objects,
                   have_logger, logger, built, lastSet, relevelled, reconf>>

\* line 20: auto& known_logger = loggers_[name];  unordered_map::operator[]
\* inserts an empty logger_ptr when the key is absent.
FmIndex(t) ==
    /\ th[t].pc = "fm_index"
    /\ LET k == SlotKey(th[t].h) IN
         loggers_' = IF k \in Registered
                       THEN loggers_
                       ELSE [n \in Registered \cup {k} |->
                               IF n = k THEN Null ELSE loggers_[n]]
    /\ th' = Goto(t, "fm_make")
    /\ UNCHANGED <<loggers_mutex_, loggers_default_level_, objects,
                   have_logger, logger, lastSet, relevelled, reconf>>
    /\ UNCHANGED built

\* Mutation of line 21: the test for an existing logger is left out.
AlwaysNeedsLogger(slot) == TRUE

\* line 21: if (!known_logger)
NeedsLogger(slot) == slot = Null

\* Mutation of line 22: every logger is made with a sink of its own.
OwnSink == "own_sink"

\* The sink a new logger is attached to (line 22, second argument).
NewLoggerSink == master_sink

\* Mutation of lines 21-24: set_level is called outside the if, so that a
\* logger found in the registry is reset to the default level.
FmMakeResetsLevel(t) ==
    /\ th[t].pc = "fm_make"
    /\ LET k == SlotKey(th[t].h) IN
         IF NeedsLogger(loggers_[k])
           THEN /\ Len(objects) < MaxObjects
                /\ objects' = Append(objects,
                       [name |-> HandleName(th[t].h), level |-> "unset",
                        sink |-> NewLoggerSink])
                /\ loggers_' = [loggers_ EXCEPT ![k] = Len(objects) + 1]
                /\ th' = [th EXCEPT ![t].pc = "fm_setlevel", ![t].made = TRUE]
           ELSE /\ th' = Goto(t, "fm_assign")
                /\ objects' = [objects EXCEPT ![loggers_[k]].level =
                                                 loggers_default_level_]
                /\ UNCHANGED loggers_
    /\ UNCHANGED <<loggers_mutex_, loggers_default_level_, have_logger,
                   logger, built, lastSet, relevelled, reconf>>

\* Mutation of line 20: known_logger is a copy of the entry, not a
\* reference to it, so the new logger is not stored in the registry.
FmMakeOnCopy(t) ==
    /\ th[t].pc = "fm_make"
    /\ LET k == SlotKey(th[t].h) IN
         IF NeedsLogger(loggers_[k])
           THEN /\ Len(objects) < MaxObjects
                /\ objects' = Append(objects,
                       [name |-> HandleName(th[t].h), level |-> "unset",
                        sink |-> NewLoggerSink])
                /\ th' = [th EXCEPT ![t].pc = "fm_setlevel", ![t].made = TRUE]
                /\ UNCHANGED loggers_
           ELSE /\ th' = Goto(t, "fm_assign")
                /\ UNCHANGED <<loggers_, objects>>
    /\ UNCHANGED <<loggers_mutex_, loggers_default_level_, have_logger,
                   logger, built, lastSet, relevelled, reconf>>

\* lines 21-22: known_logger = std::make_shared<spdlog::logger>(name, master_sink)
FmMake(t) ==
    /\ th[t].pc = "fm_make"
    /\ LET k == SlotKey(th[t].h) IN
         IF NeedsLogger(loggers_[k])
           THEN /\ Len(objects) < MaxObjects
                /\ objects' = Append(objects,
                       [name |-> HandleName(th[t].h), level |-> "unset",
                        sink |-> NewLoggerSink])
                /\ loggers_' = [loggers_ EXCEPT ![k] = Len(objects) + 1]
                /\ th' = [th EXCEPT ![t].pc = "fm_setlevel", ![t].made = TRUE]
           ELSE /\ th' = Goto(t, "fm_assign")
                /\ UNCHANGED <<loggers_, objects>>
    /\ UNCHANGED <<loggers_mutex_, loggers_default_level_, have_logger,
                   logger, lastSet, relevelled, reconf>>
    /\ UNCHANGED built

\* Mutation of line 23: a new logger is given the hard-wired level info,
\* not the registry default.
FixedLoggerLevel == "info"

\* The level a new logger is given (line 23).
NewLoggerLevel == loggers_default_level_

\* line 23: known_logger->set_level(loggers_default_level_)
FmSetLevel(t) ==
    /\ th[t].pc = "fm_setlevel"
    /\ objects' = [objects EXCEPT ![loggers_[SlotKey(th[t].h)]].level = NewLoggerLevel]
    /\ th' = Goto(t, "fm_assign")
    /\ UNCHANGED <<loggers_, loggers_mutex_, loggers_default_level_,
                   have_logger, logger, lastSet, relevelled, reconf>>
    /\ UNCHANGED built

\* Mutation of lines 26-27: the flag is published where the reference
\* should have been stored.
FmAssignPublishesFirst(t) ==
    /\ th[t].pc = "fm_assign"
    /\ have_logger' = [have_logger EXCEPT ![th[t].h] = TRUE]
    /\ th' = Goto(t, "fm_flag")
    /\ UNCHANGED <<loggers_, loggers_mutex_, loggers_default_level_, objects,
                   logger, built, lastSet, relevelled, reconf>>

\* line 26: logger = known_logger
FmAssign(t) ==
    /\ th[t].pc = "fm_assign"
    /\ logger' = [logger EXCEPT ![th[t].h] = loggers_[SlotKey(th[t].h)]]
    /\ th' = Goto(t, "fm_flag")
    /\ UNCHANGED <<loggers_, loggers_mutex_, loggers_default_level_, objects,
                   have_logger, lastSet, relevelled, reconf>>
    /\ UNCHANGED built

\* line 27: have_logger = true
FmFlag(t) ==
    /\ th[t].pc = "fm_flag"
    /\ have_logger' = [have_logger EXCEPT ![th[t].h] = TRUE]
    /\ th' = Goto(t, "fm_unlock")
    /\ UNCHANGED <<loggers_, loggers_mutex_, loggers_default_level_, objects,
                   logger, lastSet, relevelled, reconf>>
    /\ UNCHANGED built

\* Mutation of line 28: the function returns with the mutex still locked.
FmUnlockKeepsMutex(t) ==
    /\ th[t].pc = "fm_unlock"
    /\ th' = [th EXCEPT ![t] = IdleFrame]
    /\ UNCHANGED <<loggers_, loggers_mutex_, loggers_default_level_, objects,
                   have_logger, logger, built, lastSet, relevelled, reconf>>

\* line 28: end of find_or_make_logger, the guard's destructor unlocks, and
\* operator const logger_ptr& returns the reference (catlogger.hpp line 66).
FmUnlock(t) ==
    /\ th[t].pc = "fm_unlock"
    /\ loggers_mutex_' = Unlocked
    /\ th' = [th EXCEPT ![t] = IdleFrame]
    /\ UNCHANGED <<loggers_, loggers_default_level_, objects, have_logger,
                   logger, lastSet, relevelled, reconf>>
    /\ UNCHANGED built

\* The whole of find_or_make_logger, as the steps of thread t.
find_or_make_logger(t) ==
    \/ FmLock(t)
    \/ FmCheck(t)
    \/ FmIndex(t)
    \/ FmMake(t)
    \/ FmSetLevel(t)
    \/ FmAssign(t)
    \/ FmFlag(t)
    \/ FmUnlock(t)

\* ------------------------------------------------- default-level setter
\* Mutation of line 44: the setter forgets to store the level.
SetDefaultIgnored(level) ==
    UNCHANGED <<loggers_default_level_, loggers_, objects>>

\* Mutation of line 44: the setter also pushes the level to every logger.
SetDefaultRetroactive(level) ==
    /\ loggers_default_level_' = level
    /\ objects' = [o \in 1..Len(objects) |-> [objects[o] EXCEPT !.level = level]]
    /\ UNCHANGED loggers_

\* detail::set_default_catlogger_level(level), lines 43-45: writes the one
\* field and nothing else of the registry.
set_default_catlogger_level(level) ==
    /\ loggers_default_level_' = level
    /\ UNCHANGED <<loggers_, objects>>

\* --------------------------------------------------- for_each_cat_logger
\* A caller starts for_each_cat_logger; the call does nothing before it
\* asks for the mutex.
ForEachCall(t) ==
    /\ th[t].pc = "idle"
    /\ th' = Goto(t, "fe_lock")
    /\ UNCHANGED <<loggers_, loggers_mutex_, loggers_default_level_, objects,
                   have_logger, logger, lastSet, relevelled, reconf>>
    /\ UNCHANGED built

\* Mutation of line 33: for_each_cat_logger does not wait for the mutex.
FeLockNeverWaits == TRUE

\* line 33: the constructor of the lock_guard blocks until loggers_mutex_
\* has no owner.
FeLockReady == loggers_mutex_ = Unlocked

\* line 33: std::lock_guard lock{CategoryLogger::loggers_mutex_}
\* f is the call's first argument, first read at line 34; snap remembers
\* the registry's keys at this moment.
FeLock(t, f) ==
    /\ th[t].pc = "fe_lock"
    /\ FeLockReady
    /\ loggers_mutex_' = t
    /\ th' = [th EXCEPT ![t].pc = "fe_visit", ![t].f = f, ![t].snap = Registered]
    /\ UNCHANGED <<loggers_, loggers_default_level_, objects, have_logger,
                   logger, lastSet, relevelled, reconf>>
    /\ UNCHANGED built

\* Mutation of line 35: the loop does not advance past the entries it has
\* passed to f.
RemainingRevisits(t) ==
    IF th[t].f.kind = "null" THEN {} ELSE DOMAIN loggers_

\* The names the range-for of line 35 has still to reach: none when f is
\* empty (line 34), else the keys of the map not yet passed to f.
Remaining(t) ==
    IF th[t].f.kind = "null"
      THEN {}
      ELSE Registered \ {p[1] : p \in th[t].visited}

\* What the caller's visitor does with the logger it is handed.
VisitEffect(f, o) ==
    IF f.kind = "set"
      THEN [objects EXCEPT ![o].level = f.level]
      ELSE objects

\* lines 35-36: one iteration, f(name, *logger).  Dereferencing an empty
\* logger_ptr is undefined: the thread is then lost ("ub").
FeVisit(t) ==
    /\ th[t].pc = "fe_visit"
    /\ th[t].f.kind # "reenter"
    /\ \E n \in Remaining(t) :
         LET o == loggers_[n] IN
           IF o = Null
             THEN /\ th' = Goto(t, "ub")
                  /\ UNCHANGED <<objects, relevelled, reconf>>
             ELSE /\ th' = [th EXCEPT ![t].visited = @ \cup {<<n, o>>},
                                      ![t].calls = @ + 1]
                  /\ objects' = VisitEffect(th[t].f, o)
                  /\ relevelled' = (relevelled \/ th[t].f.kind = "set")
                  /\ reconf' = IF th[t].f.kind = "set" THEN "none" ELSE reconf
    /\ UNCHANGED <<loggers_, loggers_mutex_, loggers_default_level_,
                   have_logger, logger, lastSet>>
    /\ UNCHANGED built

\* line 35: the range-for ends (or line 34: f is empty).
FeVisitEnd(t) ==
    /\ th[t].pc = "fe_visit"
    /\ Remaining(t) = {}
    /\ th' = Goto(t, "fe_and_then")
    /\ UNCHANGED <<loggers_, loggers_mutex_, loggers_default_level_, objects,
                   have_logger, logger, lastSet, relevelled, reconf>>
    /\ UNCHANGED built

\* Mutation of line 37: and_then is skipped when the registry is empty.
InvokesAndThenUnlessEmpty(and_then) ==
    and_then.kind # "null" /\ DOMAIN loggers_ # {}

\* line 37: if (and_then)
InvokesAndThen(and_then) == and_then.kind # "null"

\* lines 37-38: if (and_then) and_then();  and_then is the call's second
\* argument, first read here.
FeAndThen(t, and_then) ==
    /\ th[t].pc = "fe_and_then"
    /\ IF InvokesAndThen(and_then)
         THEN /\ th' = [th EXCEPT ![t].pc = "fe_unlock", ![t].and_then = and_then,
                                  ![t].thens = @ + 1]
              /\ set_default_catlogger_level(and_then.level)
              /\ lastSet' = and_then.level
              /\ reconf' = "none"
         ELSE /\ th' = [th EXCEPT ![t].pc = "fe_unlock", ![t].and_then = and_then]
              /\ UNCHANGED <<loggers_, loggers_default_level_, objects,
                             lastSet, reconf>>
    /\ UNCHANGED <<loggers_mutex_, have_logger, logger, relevelled>>
    /\ UNCHANGED built

\* Whether the call of thread t is a full reconfiguration to one level: the
\* visitor sets every logger to L and and_then makes L the default.
FullReconfiguration(t) ==
    /\ th[t].f.kind = "set"
    /\ th[t].and_then.kind = "set"
    /\ th[t].f.level = th[t].and_then.level

\* line 39: return, the guard's destructor unlocks.
FeUnlock(t) ==
    /\ th[t].pc = "fe_unlock"
    /\ loggers_mutex_' = Unlocked
    /\ th' = [th EXCEPT ![t] = IdleFrame]
    /\ reconf' = IF FullReconfiguration(t) THEN th[t].f.level ELSE reconf
    /\ UNCHANGED <<loggers_, loggers_default_level_, objects, have_logger,
                   logger, lastSet, relevelled>>
    /\ UNCHANGED built

for_each_cat_logger(t) ==
    \/ \E f \in Visitors : FeLock(t, f)
    \/ FeVisit(t)
    \/ FeVisitEnd(t)
    \/ \E a \in AndThens : FeAndThen(t, a)
    \/ FeUnlock(t)

\* The caller of the fast path has used the reference it was given.
Finish(t) ==
    /\ th[t].pc = "fast_done"
    /\ th' = [th EXCEPT ![t] = IdleFrame]
    /\ UNCHANGED <<loggers_, loggers_mutex_, loggers_default_level_, objects,
                   have_logger, logger, lastSet, relevelled, reconf>>
    /\ UNCHANGED built

Next ==
    \E t \in Threads :
        \/ \E h \in Handles : OperatorLoggerPtr(t, h)
        \/ find_or_make_logger(t)
        \/ ForEachCall(t)
        \/ for_each_cat_logger(t)
        \/ Finish(t)

Spec == Init /\ [][Next]_vars

\* ------------------------------------------------------------ fairness
\* The steps of a call that owns the mutex: straight-line code and callbacks
\* that return, which a scheduled thread goes on executing.
Proceeds(t) ==
    \/ FmCheck(t) \/ FmIndex(t) \/ FmMake(t) \/ FmSetLevel(t)
    \/ FmAssign(t) \/ FmFlag(t) \/ FmUnlock(t)
    \/ FeVisit(t) \/ FeVisitEnd(t) \/ FeUnlock(t)
    \/ \E and_then \in AndThens : FeAndThen(t, and_then)

\* Fair scheduling: a thread inside a critical section goes on (weak
\* fairness), and a thread blocked in the lock_guard of line 16 or line 33
\* gets the mutex if it is free again and again (strong fairness: the wait
\* is not starved by other threads that keep taking the mutex).
Fairness ==
    \A t \in Threads :
        /\ WF_vars(Proceeds(t))
        /\ SF_vars(FmLock(t))
        /\ SF_vars(\E f \in Visitors : FeLock(t, f))

\* The program under fair scheduling, with callbacks that return and make
\* no lock-acquiring call.
SpecFair == Spec /\ Fairness

\* ---------------------------------------------------- handle construction
\* The handles that are constructed while the program runs; the others are
\* there from the start.
LateHandles == {1}

\* Mutation of catlogger.hpp line 57: the constructor registers the
\* category at once (an eager constructor, touching the registry unlocked).
ConstructEagerly(t, h) ==
    /\ th[t].pc = "idle"
    /\ h \notin built
    /\ built' = built \cup {h}
    /\ have_logger' = [have_logger EXCEPT ![h] = FALSE]
    /\ logger' = [logger EXCEPT ![h] = Null]
    /\ loggers_' = [n \in DOMAIN loggers_ \cup {HandleName(h)} |->
                      IF n \in DOMAIN loggers_ THEN loggers_[n] ELSE Null]
    /\ th' = [th EXCEPT ![t].pc = "ctor_done", ![t].h = h,
                        ![t].under_lock = (loggers_mutex_ # Unlocked)]
    /\ UNCHANGED <<loggers_mutex_, loggers_default_level_, objects, lastSet,
                   relevelled, reconf>>

\* catlogger.hpp line 57, explicit CategoryLogger(std::string name), also
\* reached through Cat (lines 81-83): name{std::move(name)}, and the member
\* initializers of lines 38-39 (have_logger = false, an empty logger).
\* under_lock notes whether a thread owned the mutex when the constructor
\* ran.
Construct(t, h) ==
    /\ th[t].pc = "idle"
    /\ h \notin built
    /\ built' = built \cup {h}
    /\ have_logger' = [have_logger EXCEPT ![h] = FALSE]
    /\ logger' = [logger EXCEPT ![h] = Null]
    /\ th' = [th EXCEPT ![t].pc = "ctor_done", ![t].h = h,
                        ![t].under_lock = (loggers_mutex_ # Unlocked)]
    /\ UNCHANGED <<loggers_, loggers_mutex_, loggers_default_level_, objects,
                   lastSet, relevelled, reconf>>

\* The constructor has returned its handle to the caller.
ConstructDone(t) ==
    /\ th[t].pc = "ctor_done"
    /\ th' = [th EXCEPT ![t] = IdleFrame]
    /\ UNCHANGED <<loggers_, loggers_mutex_, loggers_default_level_, objects,
                   have_logger, logger, built, lastSet, relevelled, reconf>>

NextCtor ==
    \/ Next
    \/ \E t \in Threads, h \in Handles : Construct(t, h)
    \/ \E t \in Threads : ConstructDone(t)

\* The program with handle construction at run time.
SpecCtor == InitWith(Handles \ LateHandles) /\ [][NextCtor]_vars

\* ------------------------------------------- get_default_catlogger_level
\* A call of detail::get_default_catlogger_level (catlogger.cpp lines
\* 47-49; catlogger.hpp lines 20-21 state no precondition): the function
\* takes no lock, the caller is in no callback.
GetDefaultCall(t) ==
    /\ th[t].pc = "idle"
    /\ th' = [th EXCEPT ![t].pc = "gd_read"]
    /\ UNCHANGED <<loggers_, loggers_mutex_, loggers_default_level_, objects,
                   have_logger, logger, built, lastSet, relevelled, reconf>>

\* A thread is at the setter call of an and_then: its plain write of line
\* 44 may overlap an unlocked read of the same field.
WriteInFlight == \E u \in Threads : th[u].pc = "fe_and_then"

\* catlogger.cpp line 48: return CategoryLogger::loggers_default_level_, a
\* plain read.  A read that overlaps the write of line 44 is a data race:
\* it may yield any level.
GetDefaultRead(t) ==
    /\ th[t].pc = "gd_read"
    /\ \E l \in (IF WriteInFlight THEN Levels ELSE {loggers_default_level_}) :
         th' = [th EXCEPT ![t].pc = "gd_done", ![t].got = l]
    /\ UNCHANGED <<loggers_, loggers_mutex_, loggers_default_level_, objects,
                   have_logger, logger, built, lastSet, relevelled, reconf>>

\* The getter has returned.
GetDefaultDone(t) ==
    /\ th[t].pc = "gd_done"
    /\ th' = [th EXCEPT ![t] = IdleFrame]
    /\ UNCHANGED <<loggers_, loggers_mutex_, loggers_default_level_, objects,
                   have_logger, logger, built, lastSet, relevelled, reconf>>

get_default_catlogger_level(t) ==
    GetDefaultCall(t) \/ GetDefaultRead(t) \/ GetDefaultDone(t)

NextGet ==
    \/ Next
    \/ \E t \in Threads : get_default_catlogger_level(t)

\* The program with callers of the getter.
SpecGet == Init /\ [][NextGet]_vars

\* ---------------------------------------------------- re-entrant callbacks
\* The lock-acquiring calls a callback can make: for_each_cat_logger again
\* (the lock of line 33), or the first use of an unresolved handle h (the
\* test of hpp line 63 fails, the lock of line 16).
ReentrantCall(t, frame) ==
    \/ th' = [th EXCEPT ![t] = [frame EXCEPT !.pc = "re_fe_lock"]]
    \/ \E h \in built :
         /\ ~have_logger[h]
         /\ th' = [th EXCEPT ![t] = [frame EXCEPT !.pc = "re_fm_lock", !.h = h]]

\* line 36 with a visitor that makes a lock-acquiring call: f is entered
\* for an entry, and its call reaches the lock.
FeVisitReenters(t) ==
    /\ th[t].pc = "fe_visit"
    /\ th[t].f.kind = "reenter"
    /\ \E n \in Remaining(t) :
         /\ loggers_[n] # Null
         /\ ReentrantCall(t, [th[t] EXCEPT !.calls = @ + 1])
    /\ UNCHANGED <<loggers_, loggers_mutex_, loggers_default_level_, objects,
                   have_logger, logger, built, lastSet, relevelled, reconf>>

\* line 38 with an and_then that makes a lock-acquiring call.
FeAndThenReenters(t) ==
    /\ th[t].pc = "fe_and_then"
    /\ ReentrantCall(t, [th[t] EXCEPT !.and_then = ReenterFn, !.thens = @ + 1])
    /\ UNCHANGED <<loggers_, loggers_mutex_, loggers_default_level_, objects,
                   have_logger, logger, built, lastSet, relevelled, reconf>>

\* Mutation of catlogger.hpp line 42: loggers_mutex_ is a
\* std::recursive_mutex, which its owner may lock again.
RelockRecursive(t) == loggers_mutex_ \in {Unlocked, t}

\* Whether the lock_guard of the nested call (line 16 or line 33) gets the
\* mutex: as for any other call, when nobody owns it.
RelockReady(t) ==
    IF th[t].pc = "re_fe_lock" THEN FeLockReady ELSE FmLockReady

\* The nested std::lock_guard on the std::mutex the thread owns already.
\* This is undefined behaviour of std::mutex::lock: the thread blocks for
\* ever (it never takes this step), or the implementation detects the
\* relock and lock() throws std::system_error, which leaves the callback
\* and for_each_cat_logger, whose lock_guard releases the mutex.
Relock(t) ==
    /\ th[t].pc \in {"re_fe_lock", "re_fm_lock"}
    /\ IF RelockReady(t)
         THEN /\ th' = Goto(t, "re_acquired")
              /\ loggers_mutex_' = t
         ELSE /\ th' = [th EXCEPT ![t] = [IdleFrame EXCEPT !.pc = "threw"]]
              /\ loggers_mutex_' = Unlocked
    /\ UNCHANGED <<loggers_, loggers_default_level_, objects, have_logger,
                   logger, built, lastSet, relevelled, reconf>>

\* The caller of for_each_cat_logger has caught the exception.
RelockCaught(t) ==
    /\ th[t].pc = "threw"
    /\ th' = [th EXCEPT ![t] = IdleFrame]
    /\ UNCHANGED <<loggers_, loggers_mutex_, loggers_default_level_, objects,
                   have_logger, logger, built, lastSet, relevelled, reconf>>

NextReentrant ==
    \/ Next
    \/ \E t \in Threads : FeLock(t, ReenterFn)
    \/ \E t \in Threads : FeVisitReenters(t)
    \/ \E t \in Threads : FeAndThenReenters(t)
    \/ \E t \in Threads : Relock(t)
    \/ \E t \in Threads : RelockCaught(t)

\* The program with callbacks that break the no-re-entrancy rule.
SpecReentrant == Init /\ [][NextReentrant]_vars

\* ------------------------------------------------------------ type check
TypeOK ==
    /\ Registered \subseteq Names
    /\ \A n \in Registered : loggers_[n] \in ObjIds \cup {Null}
    /\ loggers_mutex_ \in Threads \cup {Unlocked}
    /\ loggers_default_level_ \in Levels
    /\ Len(objects) <= MaxObjects
    /\ \A o \in 1..Len(objects) :
         /\ objects[o].name \in Names
         /\ objects[o].level \in Levels \cup {"unset"}
         /\ objects[o].sink = master_sink
    /\ have_logger \in [Handles -> BOOLEAN]
    /\ logger \in [Handles -> ObjIds \cup {Null}]
    /\ built \subseteq Handles
    /\ \A t \in Threads :
         /\ th[t].pc \in {"idle", "fast_done", "fm_lock", "fm_check",
                          "fm_index", "fm_make", "fm_setlevel", "fm_assign",
                          "fm_flag", "fm_unlock", "fe_lock", "fe_visit",
                          "fe_and_then", "fe_unlock", "ub", "ctor_done",
                          "gd_read", "gd_done", "re_fe_lock", "re_fm_lock",
                          "re_acquired", "threw"}
         /\ th[t].f \in Visitors \cup {ReenterFn}
         /\ th[t].and_then \in AndThens \cup {ReenterFn}
         /\ th[t].snap \subseteq Names
         /\ th[t].visited \subseteq Names \X ObjIds
         /\ th[t].calls \in 0..Cardinality(Names)
         /\ th[t].thens \in 0..1
         /\ th[t].ret \in ObjIds \cup {Null}
         /\ th[t].made \in BOOLEAN
         /\ th[t].under_lock \in BOOLEAN
         /\ th[t].got \in Levels \cup {"none"}
    /\ lastSet \in Levels
    /\ relevelled \in BOOLEAN
    /\ reconf \in Levels \cup {"none"}

\* ================================================================ claims
\* The loggers made so far for category name n.
Created(n) == {o \in 1..Len(objects) : objects[o].name = n}

\* The handles that have resolved.
Resolved == {h \in Handles : have_logger[h]}

\* The positions at which a thread owns the mutex inside either operation.
FmLocked == {"fm_check", "fm_index", "fm_make", "fm_setlevel", "fm_assign",
             "fm_flag", "fm_unlock"}
FeLocked == {"fe_visit", "fe_and_then", "fe_unlock"}

\* Logger o is between its construction (line 22) and its set_level (line 23).
UnderConstruction(o) ==
    \E t \in Threads :
        /\ th[t].pc = "fm_setlevel"
        /\ loggers_[SlotKey(th[t].h)] = o

\* C1: under every interleaving at most one logger object is ever created
\* per category name, and every resolved handle holds exactly the logger
\* object the registry maps its name to.
C1_OneLoggerPerName ==
    /\ \A n \in Names : Cardinality(Created(n)) <= 1
    /\ \A h \in Resolved :
         /\ HandleName(h) \in Registered
         /\ logger[h] = loggers_[HandleName(h)]
    /\ \A a, b \in Resolved :
         HandleName(a) = HandleName(b) => logger[a] = logger[b]

\* Two handles of one name are resolved to one object, the second of them
\* by a thread that had to wait for a concurrent resolution.
C1_Witness ==
    \E a, b \in Handles, t, u \in Threads :
        /\ a # b /\ t # u
        /\ HandleName(a) = HandleName(b)
        /\ have_logger[a] /\ have_logger[b]
        /\ logger[a] = logger[b] /\ logger[a] # Null
        /\ th[t].pc = "fm_unlock" /\ th[t].h = b /\ ~th[t].made
        /\ th[u].pc = "fm_lock" /\ th[u].h = b

\* C2: once a full reconfiguration to level L has returned (and until some
\* other call changes a level), the default level is L, every logger a
\* handle holds has level L, and every registered logger has level L, the
\* only exception being a logger whose creation is still between its
\* construction and its set_level under the lock; none misses the update.
C2_AtomicReconfiguration ==
    reconf # "none" =>
        /\ loggers_default_level_ = reconf
        /\ \A h \in Resolved :
             logger[h] # Null /\ objects[logger[h]].level = reconf
        /\ \A n \in Registered :
             loggers_[n] # Null =>
                \/ objects[loggers_[n]].level = reconf
                \/ UnderConstruction(loggers_[n])

\* After a reconfiguration to "warn" has returned, a resolution has made a
\* second logger, which was given "warn", next to the first one, now "warn".
C2_Witness ==
    /\ reconf = "warn"
    /\ Len(objects) = 2
    /\ objects[1].level = "warn"
    /\ \E t \in Threads :
         /\ th[t].pc = "fm_assign" /\ th[t].made
         /\ loggers_[SlotKey(th[t].h)] = 2
         /\ objects[2].level = "warn"

\* C3: while a for_each_cat_logger call holds the lock (from acquisition,
\* through the visits and and_then, until it returns) the set of registered
\* names is the one it found when it acquired the lock.
C3_NoCreationDuringEnumeration ==
    \A t \in Threads :
        th[t].pc \in FeLocked => Registered = th[t].snap

\* An enumeration has finished and_then while a first-use resolution of a
\* category that is not registered yet waits for the mutex.
C3_Witness ==
    \E t, u \in Threads :
        /\ th[t].pc = "fe_unlock" /\ th[t].thens = 1
        /\ th[t].snap # {}
        /\ th[u].pc = "fm_lock"
        /\ HandleName(th[u].h) \notin Registered

\* C4 as stated: once the default-level setter has been called with L,
\* every handle resolved afterwards gets a logger whose initial level is L.
\* (As long as no visitor has called set_level, a logger's level is its
\* initial level; "warn" can only have come from a setter call.)
C4_Original ==
    [][\A h \in Handles :
         (/\ ~have_logger[h]
          /\ have_logger'[h]
          /\ lastSet = "warn"
          /\ ~relevelled)
         => objects[logger[h]].level = lastSet
      ]_vars

\* C4 (amended): a logger created after the default-level setter was called
\* with L gets L as its initial level; a resolution that finds its name
\* registered creates nothing and leaves every logger's level as it is;
\* and the setter call leaves every handle, and the level of the logger of
\* every resolved handle, as it was.
C4_DefaultLevelAppliesToNewLoggers ==
    [][\A t \in Threads :
         /\ (th[t].pc = "fm_setlevel" /\ th'[t].pc = "fm_assign")
            => objects'[loggers_[SlotKey(th[t].h)]].level = lastSet
         /\ (th[t].pc = "fm_make" /\ th'[t].pc = "fm_assign")
            => objects' = objects
         /\ (th[t].pc \in {"fm_assign", "fm_flag"} /\ th'[t].pc # th[t].pc)
            => objects' = objects
         /\ (/\ th[t].pc = "fe_and_then"
             /\ th'[t].pc = "fe_unlock"
             /\ th'[t].and_then.kind = "set")
            => /\ have_logger' = have_logger
               /\ logger' = logger
               /\ \A h \in Resolved :
                    objects'[logger[h]].level = objects[logger[h]].level
      ]_vars

\* The setter was called with "warn" and no visitor has changed a level:
\* a logger made afterwards has "warn", and a handle that has just been
\* resolved to an older logger, without creating one, finds it at "info".
C4_Witness ==
    /\ lastSet = "warn"
    /\ ~relevelled
    /\ \E o \in 1..Len(objects) : objects[o].level = "warn"
    /\ \E t \in Threads :
         /\ th[t].pc = "fm_unlock" /\ ~th[t].made
         /\ have_logger[th[t].h]
         /\ objects[logger[th[t].h]].level = "info"

\* C5: once a handle is resolved, its flag stays set and its cached logger
\* reference stays the same in every later step.
C5_ResolvedHandleIsStable ==
    [][\A h \in Handles :
         have_logger[h] => (have_logger'[h] /\ logger'[h] = logger[h])
      ]_vars

\* A resolved handle is accessed again, on the fast path and by a thread
\* that had seen it unresolved, after the default level has been changed.
C5_Witness ==
    \E h \in Resolved, t, u \in Threads :
        /\ lastSet = "warn"
        /\ th[t].pc = "fast_done" /\ th[t].ret = logger[h]
        /\ th[u].pc = "fm_check" /\ th[u].h = h

\* The (name, logger) pairs thread t's enumeration has passed to f.
Visited(t) == th[t].visited

\* The (name, logger) pairs of the registry for the names in S.
Pairs(S) == {<<n, loggers_[n]>> : n \in S}

\* The pairs thread t's enumeration has to visit: those of the names it
\* found at lock acquisition, or none when f is empty.
Due(t) == IF th[t].f.kind = "null" THEN {} ELSE Pairs(th[t].snap)

\* C6: a call set_default_catlogger_level(L) stores L in the default-level
\* field and changes neither the registry mapping nor the level (or any
\* other part) of any logger made so far.
C6_SetterChangesOnlyDefault ==
    [][\A t \in Threads :
         (/\ th[t].pc = "fe_and_then"
          /\ th'[t].pc = "fe_unlock"
          /\ th'[t].and_then.kind = "set")
         => /\ loggers_default_level_' = th'[t].and_then.level
            /\ loggers_' = loggers_
            /\ objects' = objects
      ]_vars

\* The setter has run and a registered logger keeps a level that differs
\* from the new default.
C6_Witness ==
    \E t \in Threads :
        /\ th[t].pc = "fe_unlock" /\ th[t].thens = 1
        /\ loggers_default_level_ = "warn"
        /\ \E n \in Registered :
             loggers_[n] # Null /\ objects[loggers_[n]].level = "info"

\* C7: an enumeration passes to f each pair that was registered at lock
\* acquisition exactly once and no other pair, calls and_then (when given)
\* exactly once, after the last visit and with the mutex held, and does
\* not own the mutex once it has returned.
C7_VisitsEachOnceThenAndThen ==
    \A t \in Threads :
        /\ th[t].calls = Cardinality(Visited(t))
        /\ Visited(t) \subseteq Due(t)
        /\ th[t].thens <= 1
        /\ th[t].thens = 1 =>
             /\ th[t].and_then.kind # "null"
             /\ Visited(t) = Due(t)
             /\ loggers_mutex_ = t
        /\ th[t].pc = "fe_unlock" =>
             /\ Visited(t) = Due(t)
             /\ th[t].thens = (IF th[t].and_then.kind = "null" THEN 0 ELSE 1)
             /\ loggers_mutex_ = t
        /\ th[t].pc \in {"idle", "fe_lock"} => loggers_mutex_ # t

\* An enumeration over two registered loggers has made both visits and
\* then run and_then.
C7_Witness ==
    \E t \in Threads :
        /\ th[t].pc = "fe_unlock"
        /\ th[t].calls = 2
        /\ th[t].thens = 1

\* C8: an enumeration that found the registry empty makes no visit, and
\* still calls and_then once when one is given.
C8_EmptyRegistryStillRunsAndThen ==
    \A t \in Threads :
        (th[t].pc = "fe_unlock" /\ th[t].snap = {}) =>
            /\ th[t].calls = 0
            /\ th[t].and_then.kind # "null" => th[t].thens = 1

\* An enumeration with a visitor and an and_then found no category, and
\* has run and_then.
C8_Witness ==
    \E t \in Threads :
        /\ th[t].pc = "fe_unlock"
        /\ th[t].snap = {} /\ Registered = {}
        /\ th[t].f.kind # "null"
        /\ th[t].calls = 0
        /\ th[t].thens = 1

\* A thread is inside the locked part of a resolution.
Resolving == \E t \in Threads : th[t].pc \in FmLocked

\* C9: handles of pairwise distinct names resolve to pairwise distinct
\* logger objects, each made for its handle's name; once no resolution is
\* in progress the registry has exactly one entry per resolved name, and
\* an enumeration visits exactly the (name, logger) pairs of the resolved
\* handles.
C9_DistinctNamesDistinctLoggers ==
    /\ \A a, b \in Resolved :
         HandleName(a) # HandleName(b) => logger[a] # logger[b]
    /\ \A a \in Resolved :
         logger[a] # Null /\ objects[logger[a]].name = HandleName(a)
    /\ ~Resolving =>
         /\ Registered = {HandleName(h) : h \in Resolved}
         /\ Cardinality({loggers_[n] : n \in Registered}) = Cardinality(Registered)
         /\ Len(objects) = Cardinality(Registered)
    /\ \A t \in Threads :
         (th[t].pc \in {"fe_and_then", "fe_unlock"} /\ th[t].f.kind # "null") =>
             Visited(t) = {<<HandleName(h), logger[h]>> : h \in Resolved}

\* Every handle is resolved, the distinct names among them are all
\* registered, and an enumeration has visited one pair per name.
C9_Witness ==
    /\ Resolved = Handles
    /\ Registered = Names
    /\ loggers_["net"] # loggers_["disk"]
    /\ \E t \in Threads :
         /\ th[t].pc = "fe_unlock"
         /\ th[t].calls = Cardinality(Names)

\* C10: when a thread that is in no call accesses a resolved handle, the
\* access can complete at once whoever owns the mutex, it can only end on
\* the fast path, and that step returns the cached logger and changes
\* neither the mutex nor the registry.
C10_FastPathNeedsNoLock ==
    \A t \in Threads, h \in Handles :
        (th[t].pc = "idle" /\ have_logger[h]) =>
            /\ ENABLED (/\ OperatorLoggerPtr(t, h)
                        /\ th'[t].pc = "fast_done"
                        /\ th'[t].ret = logger[h]
                        /\ loggers_mutex_' = loggers_mutex_
                        /\ loggers_' = loggers_)
            /\ ~ENABLED (/\ OperatorLoggerPtr(t, h)
                         /\ th'[t].pc # "fast_done")

\* A thread can access a resolved handle while another thread owns the
\* mutex in the middle of an enumeration, and a third access has returned
\* the cached logger on the fast path.
C10_Witness ==
    \E t, u \in Threads, h \in Resolved :
        /\ t # u
        /\ th[u].pc = "fe_and_then" /\ loggers_mutex_ = u
        /\ th[t].pc = "fast_done"
        /\ th[t].ret = logger[h] /\ th[t].ret # Null

\* The positions whose next step reads or writes the registry mapping or
\* the default level: lines 20-26 of find_or_make_logger, the loop and the
\* and_then (the setter) of for_each_cat_logger, and line 48 of the getter.
TouchesRegistry ==
    {"fm_index", "fm_make", "fm_setlevel", "fm_assign", "fe_visit",
     "fe_and_then", "gd_read"}

\* C11: constructing a handle leaves it unresolved with an empty logger and
\* changes nothing else: not the mutex, the registry, the default level,
\* the loggers made so far, nor any other handle; and an idle thread can
\* construct a handle in every state, whoever owns the mutex.
C11_ConstructionTouchesNoRegistry ==
    /\ [](\A t \in Threads, h \in Handles :
            (th[t].pc = "idle" /\ h \notin built) => ENABLED Construct(t, h))
    /\ [][\A h \in Handles :
            (h \notin built /\ h \in built') =>
                /\ ~have_logger'[h]
                /\ logger'[h] = Null
                /\ loggers_mutex_' = loggers_mutex_
                /\ loggers_' = loggers_
                /\ loggers_default_level_' = loggers_default_level_
                /\ objects' = objects
                /\ \A g \in Handles \ {h} :
                     have_logger'[g] = have_logger[g] /\ logger'[g] = logger[g]
       ]_vars

\* A handle was constructed while another thread owned the mutex, when its
\* name was registered already, and it is unresolved.
C11_Witness ==
    \E t \in Threads :
        /\ th[t].pc = "ctor_done"
        /\ th[t].under_lock
        /\ th[t].h \in built
        /\ ~have_logger[th[t].h] /\ logger[th[t].h] = Null
        /\ HandleName(th[t].h) \in Registered

\* C12: a thread that is about to read or write the registry mapping or the
\* default level, the getter and the setter included, owns the mutex.
C12_SharedStateOnlyUnderMutex ==
    \A t \in Threads : th[t].pc \in TouchesRegistry => loggers_mutex_ = t

\* The threads whose callback has made a re-entrant lock-acquiring call that
\* has not acquired the mutex.
Reentered == {t \in Threads : th[t].pc \in {"re_fe_lock", "re_fm_lock"}}

C14_AllLoggersShareMasterSink ==
    /\ \A o \in 1..Len(objects) : objects[o].sink = master_sink
    /\ \A n, m \in Registered :
         (loggers_[n] # Null /\ loggers_[m] # Null) =>
             objects[loggers_[n]].sink = objects[loggers_[m]].sink

\* Two categories are registered, their loggers differ in level and have
\* the same sink.
C14_Witness ==
    /\ Registered = Names
    /\ \A n \in Names : loggers_[n] # Null
    /\ objects[loggers_["net"]].level = "info"
    /\ objects[loggers_["disk"]].level = "warn"
    /\ objects[loggers_["net"]].sink = objects[loggers_["disk"]].sink

C16_NewLoggerGetsCurrentDefault ==
    /\ [](loggers_default_level_ = lastSet)
    /\ [][\A t \in Threads :
            (th[t].pc = "fm_setlevel" /\ th'[t].pc = "fm_assign") =>
                LET o == loggers_[SlotKey(th[t].h)] IN
                  /\ loggers_mutex_ = t
                  /\ th[t].made
                  /\ objects[o].level = "unset"
                  /\ objects'[o].level = loggers_default_level_
                  /\ (lastSet = InitialDefaultLevel => objects'[o].level = "info")
       ]_vars

\* A logger has just been created at "warn", the default of the moment,
\* while an older logger, created before the setter call, is at "info".
C16_Witness ==
    \E t \in Threads :
        /\ th[t].pc = "fm_assign" /\ th[t].made
        /\ ~relevelled
        /\ loggers_default_level_ = "warn"
        /\ objects[loggers_[SlotKey(th[t].h)]].level = "warn"
        /\ \E o \in 1..Len(objects) : objects[o].level = "info"

\* The threads whose resolution found, at line 20, its name in the registry
\* with a logger: before the indexing the entry is there, after it no
\* logger has been made by the call.
FoundRegistered ==
    {t \in Threads :
        \/ /\ th[t].pc \in {"fm_index", "fm_make"}
           /\ SlotKey(th[t].h) \in Registered
           /\ loggers_[SlotKey(th[t].h)] # Null
        \/ th[t].pc \in {"fm_assign", "fm_flag", "fm_unlock"} /\ ~th[t].made}

\* C17: every step of a resolution that found its name registered leaves
\* the registry mapping, the default level and every logger (its level
\* included) as they were, makes no logger, and changes no handle but its
\* own, whose reference becomes the registered logger and whose flag is
\* set.
C17_ExistingNameResolutionChangesOnlyHandle ==
    [][\A t \in FoundRegistered :
         th'[t] # th[t] =>
             /\ loggers_' = loggers_
             /\ loggers_default_level_' = loggers_default_level_
             /\ objects' = objects
             /\ \A g \in Handles \ {th[t].h} :
                  have_logger'[g] = have_logger[g] /\ logger'[g] = logger[g]
             /\ logger'[th[t].h] \in {logger[th[t].h], loggers_[SlotKey(th[t].h)]}
             /\ th[t].pc = "fm_flag" =>
                  /\ have_logger'[th[t].h]
                  /\ logger'[th[t].h] = loggers_[SlotKey(th[t].h)]
      ]_vars

\* A handle has been resolved to a logger that was there before, and that
\* logger still has the level a visitor gave it, which is not the default.
C17_Witness ==
    \E t \in Threads :
        /\ th[t].pc = "fm_unlock" /\ ~th[t].made
        /\ have_logger[th[t].h]
        /\ relevelled
        /\ logger[th[t].h] = loggers_[SlotKey(th[t].h)]
        /\ objects[logger[th[t].h]].level = "warn"
        /\ loggers_default_level_ = "info"
        /\ Len(objects) = 1

\* C18: the registry only grows: no step removes a name, and a name that
\* maps to a logger maps to the same logger after every step.
C18_RegistryOnlyGrows ==
    [][/\ Registered \subseteq DOMAIN loggers_'
       /\ \A n \in Registered :
            loggers_[n] # Null => loggers_'[n] = loggers_[n]
      ]_vars

\* Both names are registered, and a third resolution, of a name that was
\* registered already, has passed the indexing of line 20.
C18_Witness ==
    /\ Registered = Names
    /\ Len(objects) = 2
    /\ \E t \in Threads :
         /\ th[t].pc = "fm_make"
         /\ loggers_[SlotKey(th[t].h)] # Null
         /\ \E g \in Resolved : HandleName(g) = HandleName(th[t].h)

\* C19: a handle whose flag is set has a cached reference that is not empty
\* and is the registry's entry for its name, so that the reference the fast
\* path returns is never empty.
C19_FlagImpliesReference ==
    /\ \A h \in Handles :
         have_logger[h] =>
             /\ logger[h] # Null
             /\ HandleName(h) \in Registered
             /\ logger[h] = loggers_[HandleName(h)]
    /\ \A t \in Threads :
         th[t].pc = "fast_done" =>
             /\ th[t].ret # Null
             /\ \E n \in Registered : loggers_[n] = th[t].ret

\* A thread has returned through the fast path while another thread is
\* between line 26 and line 27: its handle's reference is stored, the flag
\* not yet published.
C19_Witness ==
    \E t, u \in Threads :
        /\ th[t].pc = "fast_done" /\ th[t].ret # Null
        /\ th[u].pc = "fm_flag"
        /\ logger[th[u].h] # Null /\ ~have_logger[th[u].h]

\* C20: an entry of the registry is empty only while the thread that
\* inserted it owns the mutex and stands between line 20 and line 22; so
\* when no resolving thread owns the mutex, and whenever an enumeration
\* does, every entry holds a logger, and no enumeration dereferences an
\* empty entry.
C20_NoEmptyEntryOutsideResolution ==
    /\ \A n \in Registered :
         loggers_[n] = Null =>
             \E t \in Threads :
                 /\ th[t].pc = "fm_make"
                 /\ loggers_mutex_ = t
                 /\ SlotKey(th[t].h) = n
    /\ (\A t \in Threads : ~(th[t].pc \in FmLocked /\ loggers_mutex_ = t))
           => \A n \in Registered : loggers_[n] # Null
    /\ \A t \in Threads :
         /\ th[t].pc \in FeLocked => \A n \in th[t].snap : loggers_[n] # Null
         /\ th[t].pc # "ub"

\* The empty entry of line 20 is in the registry while an enumeration waits
\* for the mutex.
C20_Witness ==
    \E t, u \in Threads :
        /\ th[t].pc = "fm_make" /\ loggers_[SlotKey(th[t].h)] = Null
        /\ th[u].pc = "fe_lock"

====
